---- MODULE Spec2Model ----
(***************************************************************************)
(* Model of www/Media.js (cordova-plugin-media): the registry of Media     *)
(* handles, the command dispatcher mediaExec and the methods built from    *)
(* it, the status demultiplexer Media.onStatus and the channel entry       *)
(* point onMessageFromNative.  The native side is the environment: it      *)
(* answers a dispatched command at most once, with success or with error,  *)
(* in any order, and sends status events at any time.                      *)
(***************************************************************************)
EXTENDS Integers, Sequences, FiniteSets, TLC

(* ------------------------------------------------------------------ *)
(* Bounds of the model                                                 *)
(* ------------------------------------------------------------------ *)
\* number of handles constructed in one run
MaxHandles == 2
\* commands a method call may find outstanding at the bridge and still
\* add its own; a constructor's create command is always handed over
MaxPending == 2
\* length of a run, in steps
MaxSteps == 4

(* ------------------------------------------------------------------ *)
(* JavaScript values: k is the type tag, v the text of the value       *)
(* ------------------------------------------------------------------ *)
Num(s)   == [k |-> "number", v |-> s]
Str(s)   == [k |-> "string", v |-> s]
Fn(s)    == [k |-> "function", v |-> s]
Undef    == [k |-> "undefined", v |-> "undefined"]
Null     == [k |-> "null", v |-> "null"]
NaN      == Num("NaN")

\* strings of the model that read as a decimal number
NumericText == {"-1", "0", "2", "4"}

\* a call passes a function or leaves the argument out
OptFn(name) == {Fn(name), Undef}

\* ids handed out by utils.createUUID(), in the order of the calls
UuidPool == <<"uuid-1", "uuid-2", "uuid-3", "uuid-4", "uuid-5">>
\* the ids the native side may name: those of the handles, constructed
\* or not yet
AllIds   == {UuidPool[i] : i \in 1..MaxHandles}

Srcs     == {"a.mp3"}

VARIABLES
    mediaObjects,   \* the registry: key -> id of the handle stored under it
    handles,        \* every handle constructed so far: id -> its fields
    nextId,         \* how many ids createUUID has handed out, plus one
    pending,        \* commands given to exec and not answered yet, in issue order
    execLog,        \* the exec calls of the last step, in order
    calls,          \* the user callbacks invoked by the last step, in order
    raised,         \* the exception the last step ended with, or "none"
    console,        \* what the last step wrote with console.error: text and operand
    steps,          \* how many steps the run has taken
    platformId,     \* cordova.platformId
    gate,           \* the channel onMediaPluginReady: "absent", "waiting" or "complete"
    writes          \* history: per handle, the last writes of its position that
                    \* were delivered, latest last

vars == <<mediaObjects, handles, nextId, pending, execLog, calls, raised, console, steps,
          platformId, gate, writes>>

(* ------------------------------------------------------------------ *)
(* Constants of Media                                                  *)
(* ------------------------------------------------------------------ *)
MEDIA_STATE    == Num("1")
MEDIA_DURATION == Num("2")
MEDIA_POSITION == Num("3")
MEDIA_ERROR    == Num("9")
MEDIA_NONE     == Num("0")
MEDIA_STARTING == Num("1")
MEDIA_RUNNING  == Num("2")
MEDIA_PAUSED   == Num("3")
MEDIA_STOPPED  == Num("4")

\* message types the native side sends: the four known ones and an
\* unknown one
MsgTypes == {MEDIA_STATE, MEDIA_DURATION, MEDIA_POSITION, MEDIA_ERROR, Num("7")}

\* the values the native side sends with each message type: a state, a
\* duration, a position as text, an error code
StatusValues(msgType) ==
    CASE msgType = MEDIA_STATE    -> {MEDIA_NONE, MEDIA_STARTING, MEDIA_RUNNING,
                                      MEDIA_PAUSED, MEDIA_STOPPED, Str("4")}
      [] msgType = MEDIA_POSITION -> {Str("2")}
      [] msgType = MEDIA_ERROR    -> {Num("2")}
      [] OTHER                    -> {Num("4")}
\* the values exec passes to a success or error callback
Values == {Num("4")}

(* ------------------------------------------------------------------ *)
(* JavaScript operators used by the code                               *)
(* ------------------------------------------------------------------ *)
\* Number(v) without the coercion
Number_Raw(v) == v

\* Number(v)
Number(v) ==
    CASE v.k = "number"    -> v
      [] v.k = "string"    -> IF v.v \in NumericText THEN Num(v.v) ELSE NaN
      [] v.k = "null"      -> Num("0")
      [] OTHER             -> NaN

\* a == b
LooseEq(a, b) ==
    CASE a.k = b.k /\ a.k = "number" -> a.v = b.v /\ a.v # "NaN"
      [] a.k = b.k                   -> a.v = b.v
      [] a.k \in {"null", "undefined"} /\ b.k \in {"null", "undefined"} -> TRUE
      [] a.k = "number" /\ b.k = "string" -> Number(b).v = a.v /\ a.v # "NaN"
      [] a.k = "string" /\ b.k = "number" -> Number(a).v = b.v /\ b.v # "NaN"
      [] OTHER -> FALSE

\* if (v)
Truthy(v) ==
    CASE v.k = "function" -> TRUE
      [] v.k = "string"   -> v.v # ""
      [] v.k = "number"   -> v.v \notin {"0", "NaN"}
      [] OTHER            -> FALSE

\* args[i] of a JavaScript argument list (indices from 0)
Arg(args, i) == IF i + 1 <= Len(args) THEN args[i + 1] ELSE Undef

(* ------------------------------------------------------------------ *)
(* The registry                                                        *)
(* ------------------------------------------------------------------ *)
NoHandle == "undefined"
EmptyObject == [k \in {} |-> NoHandle]

\* mediaObjects[key] = h
Put(reg, key, h) == [k \in (DOMAIN reg) \cup {key} |-> IF k = key THEN h ELSE reg[k]]
\* a delete that removes nothing
Delete_Keeps(reg, key) == reg

\* delete mediaObjects[key]
Delete(reg, key) == [k \in (DOMAIN reg) \ {key} |-> reg[k]]
\* mediaObjects[id]
Lookup(reg, id) == IF id \in DOMAIN reg THEN reg[id] ELSE NoHandle

\* Media.get(id)
MediaGet(id) == Lookup(mediaObjects, id)

(* ------------------------------------------------------------------ *)
(* Records of the trace variables                                      *)
(* ------------------------------------------------------------------ *)
\* a user callback invoked: which function, of which handle, with what
Call(fn, h, arg) == [cb |-> fn.v, h |-> h, arg |-> arg]
\* an exec call: the native method and the argument list
Exec(method, args) == [method |-> method, args |-> args]
\* a callback handed to exec: a plain value (a function, null or
\* undefined) or one of the closures of stop, seekTo, getCurrentPosition
Cb(kind, h, fn) == [kind |-> kind, h |-> h, fn |-> fn]

(* ------------------------------------------------------------------ *)
(* Construction                                                        *)
(* ------------------------------------------------------------------ *)
\* a constructor that starts the position at 0
NewMedia_PositionZero(uuid, srcArg, successCallback, errorCallback, statusCallback) ==
    [id |-> uuid, src |-> srcArg,
     successCallback |-> successCallback,
     errorCallback   |-> errorCallback,
     statusCallback  |-> statusCallback,
     _duration |-> Num("-1"),
     _position |-> Num("0")]

\* the handle as the constructor leaves it
NewMedia(uuid, srcArg, successCallback, errorCallback, statusCallback) ==
    [id |-> uuid, src |-> srcArg,
     successCallback |-> successCallback,
     errorCallback   |-> errorCallback,
     statusCallback  |-> statusCallback,
     _duration |-> Num("-1"),
     _position |-> Num("-1")]

\* a generator that hands out the same id again
createUUID_Repeats(n) == UuidPool[1]

\* utils.createUUID(): the next id never handed out before
createUUID(n) == UuidPool[n]

\* a command at the bridge: the method, the handle it was called on and
\* the two callbacks handed to exec
Cmd(method, h, succ, err) == [method |-> method, h |-> h, succ |-> succ, err |-> err]

\* the channel's command has been handed to exec
ChannelOpen(q) == \E j \in 1..Len(q) : q[j].method = "messageChannel"

\* the commands of q the bridge still has to answer: the channel's
\* command stays with the native side for good
Awaiting(q) == Len(q) - (IF ChannelOpen(q) THEN 1 ELSE 0)

\* every step counts against the length of the run
Tick == steps < MaxSteps /\ steps' = steps + 1

\* the platforms a page may run on
AllPlatforms == {"android", "amazon-fireos", "windowsphone", "ios"}
\* the platform of the runs of Spec.  No method, callback or status event
\* reads the platform: a run on a platform without the channel is a run
\* on android in which onCordovaReady does not fire yet.
Platforms == {"android"}

\* cordova.platformId === 'android' || ... === 'amazon-fireos' || ... === 'windowsphone'
UsesChannel(p) == p = "android" \/ p = "amazon-fireos" \/ p = "windowsphone"

\* the gate when the module has loaded: createSticky and
\* waitForInitialization on the channel platforms, nothing elsewhere
GateAtLoad(p) == IF UsesChannel(p) THEN "waiting" ELSE "absent"

\* the module has subscribed to onCordovaReady
Subscribed(p) == UsesChannel(p)

(* ------------------------------------------------------------------ *)
(* History of the delivered writes of _position                        *)
(* ------------------------------------------------------------------ *)
\* the commands whose success callback writes _position
PositionWriters == {"stopPlayingAudio", "seekToAudio", "getCurrentPositionAudio"}

\* one delivered write: what delivered it, the value it came with, and the
\* position-writing commands of the same handle that had been issued
\* before it and were still unanswered
Write(by, sent, overtook) == [by |-> by, sent |-> sent, overtook |-> overtook]

\* the methods of the position-writing commands issued before q[i] for
\* the handle of q[i]
IssuedBefore(q, i) ==
    {q[j].method : j \in {n \in 1..(i - 1) : q[n].h = q[i].h}} \cap PositionWriters

\* the history after one more write for handle id: the last two are kept
Noted(ws, id, w) ==
    [ws EXCEPT ![id] = IF @ = << >> THEN <<w>> ELSE <<@[Len(@)], w>>]

\* the state when the module has loaded on one of the platforms ps
Loaded(ps) ==
    /\ platformId \in ps
    /\ gate = GateAtLoad(platformId)
    /\ steps = 0
    /\ mediaObjects = EmptyObject
    /\ handles = [k \in {} |-> NewMedia("", "", Undef, Undef, Undef)]
    /\ nextId = 1
    /\ pending = <<>>
    /\ execLog = <<>>
    /\ calls = <<>>
    /\ raised = "none"
    /\ console = << >>
    /\ writes = [k \in {} |-> << >>]

Init == Loaded(Platforms)

\* new Media(src, successCallback, errorCallback, statusCallback, createdCallback)
Media(srcArg, successCallback, errorCallback, statusCallback, createdCallback) ==
    /\ Tick
    /\ UNCHANGED <<platformId, gate>>
    /\ nextId <= MaxHandles
    /\ LET uuid == createUUID(nextId)
           this == NewMedia(uuid, srcArg, successCallback, errorCallback, statusCallback)
           cmd  == Cmd("create", uuid, Cb("value", uuid, createdCallback),
                       Cb("value", uuid, this.errorCallback))
       IN /\ nextId' = nextId + 1
          /\ mediaObjects' = Put(mediaObjects, this.id, this.id)
          /\ handles' = Put(handles, this.id, this)
          /\ writes' = Put(writes, this.id, << >>)
          /\ pending' = Append(pending, cmd)
          /\ execLog' = <<Exec("create", <<Str(this.id), Str(this.src)>>)>>
    /\ calls' = <<>>
    /\ raised' = "none"
    /\ console' = << >>

(* ------------------------------------------------------------------ *)
(* mediaExec and its adapters                                          *)
(* ------------------------------------------------------------------ *)
nothing(player, args) == Null
idArgs(self) == <<Str(self.id)>>
defaultErrorCallback(self) == self.errorCallback
oneArgument(player, args) == <<Str(player.id), Arg(args, 0)>>
srcArgs(player) == <<Str(player.id), Str(player.src)>>
success(player, args) == Arg(args, 0)
fail(player, args) == Arg(args, 1)

\* getOptions(this, args) of each method
GetOptions(method, player, args) ==
    CASE method = "startPlayingAudio"
           -> <<Str(player.id), Str(player.src), Arg(args, 1)>>
      [] method \in {"seekToAudio", "setVolume", "setRate"}
           -> oneArgument(player, args)
      [] method = "startRecordingAudio"
           -> srcArgs(player)
      [] OTHER
           -> idArgs(player)

\* seekTo handing the caller's callback to exec as it is, like play does
GetCallback_SeekPlain(method, player, args) ==
    CASE method \in {"startPlayingAudio", "getCurrentAmplitudeAudio"}
           -> Cb("value", player.id, success(player, args))
      [] method = "stopPlayingAudio"
           -> Cb("stop", player.id, Undef)
      [] method = "seekToAudio"
           -> Cb("value", player.id, Arg(args, 1))
      [] method = "getCurrentPositionAudio"
           -> Cb("getCurrentPosition", player.id, Arg(args, 0))
      [] method = "release"
           -> Cb("value", player.id, Undef)
      [] OTHER
           -> Cb("value", player.id, nothing(player, args))

\* the value getCallback(this, args) returns, per method
GetCallback(method, player, args) ==
    CASE method \in {"startPlayingAudio", "getCurrentAmplitudeAudio"}
           -> Cb("value", player.id, success(player, args))
      [] method = "stopPlayingAudio"
           -> Cb("stop", player.id, Undef)
      [] method = "seekToAudio"
           -> Cb("seekTo", player.id, Arg(args, 1))
      [] method = "getCurrentPositionAudio"
           -> Cb("getCurrentPosition", player.id, Arg(args, 0))
      [] method = "release"
           -> Cb("value", player.id, Undef)
      [] OTHER
           -> Cb("value", player.id, nothing(player, args))

\* a pause that unregisters the handle as release does
GetCallbackEffect_PauseDeletes(method, reg, player) ==
    IF method \in {"release", "pausePlayingAudio"} THEN Delete(reg, player.id) ELSE reg

\* a release whose getCallback leaves the registry alone
GetCallbackEffect_Deferred(method, reg, player) == reg

\* the registry after getCallback(this, args) has run: the function
\* release passes as getCallback deletes the entry when it is called
GetCallbackEffect(method, reg, player) ==
    IF method = "release" THEN Delete(reg, player.id) ELSE reg

\* a stop whose adapter resets the position itself, before exec is called
GetCallbackHandles_StopEager(method, hs, player, args) ==
    IF method = "stopPlayingAudio"
    THEN [hs EXCEPT ![player.id]._position = Num("0")] ELSE hs

\* a seekTo whose adapter stores the position asked for, before exec is called
GetCallbackHandles_SeekEager(method, hs, player, args) ==
    IF method = "seekToAudio"
    THEN [hs EXCEPT ![player.id]._position = Arg(args, 0)] ELSE hs

\* the handles after getCallback(this, args) has run: the adapters of
\* stop, seekTo and getCurrentPosition only build the closure that
\* writes _position, no adapter writes a field itself
GetCallbackHandles(method, hs, player, args) == hs

\* mediaExec handing the success callback to exec as the error callback too
GetErrorCallback_SameAsSuccess(method, player, args) ==
    GetCallback(method, player, args)

\* stop built without an error adapter, like play
GetErrorCallback_StopSilent(method, player, args) ==
    CASE method \in {"pausePlayingAudio", "startRecordingAudio",
                     "stopRecordingAudio", "pauseRecordingAudio",
                     "resumeRecordingAudio", "release"}
           -> Cb("value", player.id, defaultErrorCallback(player))
      [] method = "seekToAudio"
           -> Cb("value", player.id, Arg(args, 2))
      [] method \in {"getCurrentPositionAudio", "getCurrentAmplitudeAudio"}
           -> Cb("value", player.id, fail(player, args))
      [] OTHER
           -> Cb("value", player.id, nothing(player, args))

\* the value getErrorCallback(this, args) returns, per method
GetErrorCallback(method, player, args) ==
    CASE method \in {"stopPlayingAudio", "pausePlayingAudio", "startRecordingAudio",
                     "stopRecordingAudio", "pauseRecordingAudio",
                     "resumeRecordingAudio", "release"}
           -> Cb("value", player.id, defaultErrorCallback(player))
      [] method = "seekToAudio"
           -> Cb("value", player.id, Arg(args, 2))
      [] method \in {"getCurrentPositionAudio", "getCurrentAmplitudeAudio"}
           -> Cb("value", player.id, fail(player, args))
      [] OTHER
           -> Cb("value", player.id, nothing(player, args))

\* the command one call of a method built by mediaExec hands to exec
Dispatch(method, player, args) ==
    Cmd(method, player.id, GetCallback(method, player, args),
        GetErrorCallback(method, player, args))

\* the function mediaExec returns, called on handle this with args
mediaExec(method, this, args) ==
    /\ Tick
    /\ UNCHANGED <<platformId, gate>>
    /\ this \in DOMAIN handles
    /\ Awaiting(pending) < MaxPending
    /\ LET player == handles[this]
           cmd    == Dispatch(method, player, args)
       IN /\ mediaObjects' = GetCallbackEffect(method, mediaObjects, player)
          /\ pending' = Append(pending, cmd)
          /\ execLog' = <<Exec(method, GetOptions(method, player, args))>>
          /\ handles' = GetCallbackHandles(method, handles, player, args)
    /\ calls' = <<>>
    /\ raised' = "none"
    /\ console' = << >>
    /\ UNCHANGED <<nextId, writes>>

\* the callbacks a caller hands to the constructor: all of them or none
CallbackArgs == {<<Fn("successCallback"), Fn("errorCallback"), Fn("statusCallback"),
                   Fn("createdCallback")>>,
                 <<Undef, Undef, Undef, Undef>>}

\* argument lists of the calls
NoArgs      == {<< >>}
PositionArgs  == {<<Fn("positionSuccess"), Fn("positionFail")>>, << >>}
AmplitudeArgs == {<<Fn("amplitudeSuccess"), Fn("amplitudeFail")>>, << >>}
PlayArgs    == {<<s>> : s \in OptFn("playSuccess")}
SeekArgs    == {<<Num("2"), Fn("seekSuccess"), Fn("seekFail")>>, <<Num("2")>>}
LevelArgs   == {<<Num("2")>>}

play(this)   == \E args \in PlayArgs : mediaExec("startPlayingAudio", this, args)
stop(this)   == \E args \in NoArgs : mediaExec("stopPlayingAudio", this, args)
seekTo(this) == \E args \in SeekArgs : mediaExec("seekToAudio", this, args)
pause(this)  == \E args \in NoArgs : mediaExec("pausePlayingAudio", this, args)
getCurrentPosition(this) ==
    \E args \in PositionArgs : mediaExec("getCurrentPositionAudio", this, args)
startRecord(this)  == \E args \in NoArgs : mediaExec("startRecordingAudio", this, args)
stopRecord(this)   == \E args \in NoArgs : mediaExec("stopRecordingAudio", this, args)
pauseRecord(this)  == \E args \in NoArgs : mediaExec("pauseRecordingAudio", this, args)
resumeRecord(this) == \E args \in NoArgs : mediaExec("resumeRecordingAudio", this, args)
release(this)      == \E args \in NoArgs : mediaExec("release", this, args)
setVolume(this)    == \E args \in LevelArgs : mediaExec("setVolume", this, args)
setRate(this)      == \E args \in LevelArgs : mediaExec("setRate", this, args)
getCurrentAmplitude(this) ==
    \E args \in AmplitudeArgs : mediaExec("getCurrentAmplitudeAudio", this, args)

(* ------------------------------------------------------------------ *)
(* Media.forceStop                                                     *)
(* ------------------------------------------------------------------ *)
\* a loop body that releases before it stops
forceStopBody_ReleaseFirst(st, k) ==
    LET player  == handles[st.reg[k]]
        relCmd  == Dispatch("release", player, << >>)
        stopCmd == Dispatch("stopPlayingAudio", player, << >>)
    IN [reg  |-> Delete(GetCallbackEffect("release", st.reg, player), k),
        pend |-> st.pend \o <<relCmd, stopCmd>>,
        log  |-> st.log \o <<Exec("release", GetOptions("release", player, << >>)),
                             Exec("stopPlayingAudio",
                                  GetOptions("stopPlayingAudio", player, << >>))>>]

\* one round of the loop body for key k: stop(), release(), delete
forceStopBody(st, k) ==
    LET player  == handles[st.reg[k]]
        stopCmd == Dispatch("stopPlayingAudio", player, << >>)
        reg1    == GetCallbackEffect("stopPlayingAudio", st.reg, player)
        player2 == handles[reg1[k]]
        relCmd  == Dispatch("release", player2, << >>)
        reg2    == GetCallbackEffect("release", reg1, player2)
    IN [reg  |-> Delete(reg2, k),
        pend |-> st.pend \o <<stopCmd, relCmd>>,
        log  |-> st.log \o <<Exec("stopPlayingAudio", GetOptions("stopPlayingAudio", player, << >>)),
                             Exec("release", GetOptions("release", player2, << >>))>>]

\* a loop that leaves after its first round
forceStopLoop_FirstOnly(st, i) ==
    IF i < nextId /\ createUUID(i) \in DOMAIN st.reg
    THEN forceStopBody(st, createUUID(i))
    ELSE st

\* for (var k in mediaObjects): the keys in the order they were added,
\* a key deleted before its turn is not visited
RECURSIVE forceStopLoop(_, _)
forceStopLoop(st, i) ==
    IF i >= nextId THEN st
    ELSE IF createUUID(i) \in DOMAIN st.reg
         THEN forceStopLoop(forceStopBody(st, createUUID(i)), i + 1)
         ELSE forceStopLoop(st, i + 1)

forceStop ==
    /\ Tick
    /\ UNCHANGED <<platformId, gate>>
    /\ LET st == forceStopLoop([reg |-> mediaObjects, pend |-> pending, log |-> << >>], 1)
       IN /\ mediaObjects' = st.reg
          /\ pending' = st.pend
          /\ execLog' = st.log
    /\ calls' = <<>>
    /\ raised' = "none"
    /\ console' = << >>
    /\ UNCHANGED <<handles, nextId, writes>>

(* ------------------------------------------------------------------ *)
(* The bridge answers a command                                        *)
(* ------------------------------------------------------------------ *)
RemoveAt(q, i) == [j \in 1..(Len(q) - 1) |-> IF j < i THEN q[j] ELSE q[j + 1]]

\* a stop whose success callback leaves the position alone
InvokeHandles_StopKeeps(hs, cb, p) ==
    CASE cb.kind \in {"seekTo", "getCurrentPosition"}
                          -> [hs EXCEPT ![cb.h]._position = p]
      [] OTHER            -> hs

\* the handles after callback cb of a command has been called with p:
\*   stop:               function() { player._position = 0; }
\*   seekTo:             function(p) { player._position = p; args[1](p); }
\*   getCurrentPosition: function(p) { player._position = p; args[0](p) }
InvokeHandles(hs, cb, p) ==
    CASE cb.kind = "stop" -> [hs EXCEPT ![cb.h]._position = Num("0")]
      [] cb.kind \in {"seekTo", "getCurrentPosition"}
                          -> [hs EXCEPT ![cb.h]._position = p]
      [] OTHER            -> hs

\* the user callbacks cb reaches when called with p; exec does not call
\* a callback that is null or undefined
InvokeCalls(cb, p) ==
    CASE cb.kind = "stop" -> << >>
      [] OTHER -> IF cb.fn.k = "function" THEN <<Call(cb.fn, cb.h, p)>> ELSE << >>

\* calling args[i](p) without a function there is a TypeError
InvokeRaised(cb) ==
    IF cb.kind \in {"seekTo", "getCurrentPosition"} /\ cb.fn.k # "function"
    THEN "TypeError" ELSE "none"

\* exec calls the success callback of pending[i] with value; the
\* channel's command is answered by messages only (onMessageFromNative)
DeliverSuccess(i, value) ==
    /\ Tick
    /\ UNCHANGED <<platformId, gate>>
    /\ i \in 1..Len(pending)
    /\ pending[i].method # "messageChannel"
    /\ LET cmd == pending[i]
       IN /\ handles' = InvokeHandles(handles, cmd.succ, value)
          /\ writes' = IF cmd.method \in PositionWriters
                       THEN Noted(writes, cmd.h,
                                  Write(cmd.method, value, IssuedBefore(pending, i)))
                       ELSE writes
          /\ calls' = InvokeCalls(cmd.succ, value)
          /\ raised' = InvokeRaised(cmd.succ)
    /\ pending' = RemoveAt(pending, i)
    /\ execLog' = <<>>
    /\ console' = << >>
    /\ UNCHANGED <<mediaObjects, nextId>>

\* exec calls the error callback of pending[i] with value
DeliverError(i, value) ==
    /\ Tick
    /\ UNCHANGED <<platformId, gate>>
    /\ i \in 1..Len(pending)
    /\ pending[i].method # "messageChannel"
    /\ UNCHANGED writes
    /\ LET cmd == pending[i]
       IN /\ handles' = InvokeHandles(handles, cmd.err, value)
          /\ calls' = InvokeCalls(cmd.err, value)
          /\ raised' = InvokeRaised(cmd.err)
    /\ pending' = RemoveAt(pending, i)
    /\ execLog' = <<>>
    /\ console' = << >>
    /\ UNCHANGED <<mediaObjects, nextId>>

(* ------------------------------------------------------------------ *)
(* Media.onStatus                                                      *)
(* ------------------------------------------------------------------ *)
\* an ERROR case without its break: it runs on into the POSITION case
OnStatusHandles_ErrorFallsThrough(hs, reg, id, msgType, value) ==
    LET media == Lookup(reg, id)
    IN IF media = NoHandle THEN hs
       ELSE CASE msgType = MEDIA_DURATION -> [hs EXCEPT ![media]._duration = value]
              [] msgType \in {MEDIA_POSITION, MEDIA_ERROR}
                                          -> [hs EXCEPT ![media]._position = Number(value)]
              [] OTHER -> hs

\* a lookup among all handles ever constructed instead of the registry
OnStatusHandles_AnyHandle(hs, reg, id, msgType, value) ==
    IF id \notin DOMAIN hs THEN hs
    ELSE CASE msgType = MEDIA_DURATION -> [hs EXCEPT ![id]._duration = value]
           [] msgType = MEDIA_POSITION -> [hs EXCEPT ![id]._position = Number(value)]
           [] OTHER -> hs

\* the handles after onStatus(id, msgType, value)
OnStatusHandles(hs, reg, id, msgType, value) ==
    LET media == Lookup(reg, id)
    IN IF media = NoHandle THEN hs
       ELSE CASE msgType = MEDIA_DURATION -> [hs EXCEPT ![media]._duration = value]
              [] msgType = MEDIA_POSITION -> [hs EXCEPT ![media]._position = Number(value)]
              [] OTHER -> hs

\* if (value = Media.MEDIA_STOPPED): an assignment where the comparison
\* is, true for every value
OnStatusCalls_AssignsStopped(hs, reg, id, msgType, value) ==
    LET media == Lookup(reg, id)
    IN IF media = NoHandle THEN << >>
       ELSE CASE msgType = MEDIA_STATE ->
                   (IF Truthy(hs[media].statusCallback)
                    THEN <<Call(hs[media].statusCallback, media, value)>> ELSE << >>)
                   \o
                   (IF Truthy(MEDIA_STOPPED) /\ Truthy(hs[media].successCallback)
                    THEN <<Call(hs[media].successCallback, media, Undef)>> ELSE << >>)
              [] msgType = MEDIA_ERROR ->
                   IF Truthy(hs[media].errorCallback)
                   THEN <<Call(hs[media].errorCallback, media, value)>> ELSE << >>
              [] OTHER -> << >>

\* the success callback called before the status callback
OnStatusCalls_SuccessFirst(hs, reg, id, msgType, value) ==
    LET media == Lookup(reg, id)
    IN IF media = NoHandle THEN << >>
       ELSE CASE msgType = MEDIA_STATE ->
                   (IF LooseEq(value, MEDIA_STOPPED) /\ Truthy(hs[media].successCallback)
                    THEN <<Call(hs[media].successCallback, media, Undef)>> ELSE << >>)
                   \o
                   (IF Truthy(hs[media].statusCallback)
                    THEN <<Call(hs[media].statusCallback, media, value)>> ELSE << >>)
              [] msgType = MEDIA_ERROR ->
                   IF Truthy(hs[media].errorCallback)
                   THEN <<Call(hs[media].errorCallback, media, value)>> ELSE << >>
              [] OTHER -> << >>

\* the user callbacks onStatus(id, msgType, value) invokes, in order
OnStatusCalls(hs, reg, id, msgType, value) ==
    LET media == Lookup(reg, id)
    IN IF media = NoHandle THEN << >>
       ELSE CASE msgType = MEDIA_STATE ->
                   (IF Truthy(hs[media].statusCallback)
                    THEN <<Call(hs[media].statusCallback, media, value)>> ELSE << >>)
                   \o
                   (IF LooseEq(value, MEDIA_STOPPED) /\ Truthy(hs[media].successCallback)
                    THEN <<Call(hs[media].successCallback, media, Undef)>> ELSE << >>)
              [] msgType = MEDIA_ERROR ->
                   IF Truthy(hs[media].errorCallback)
                   THEN <<Call(hs[media].errorCallback, media, value)>> ELSE << >>
              [] OTHER -> << >>

\* what onStatus(id, msgType, value) writes with console.error
OnStatusConsole(reg, id, msgType) ==
    IF Lookup(reg, id) = NoHandle
    THEN <<"Received Media.onStatus callback for unknown media :: ", id>>
    ELSE IF msgType \in {MEDIA_STATE, MEDIA_DURATION, MEDIA_ERROR, MEDIA_POSITION}
         THEN << >> ELSE <<"Unhandled Media.onStatus :: ", msgType.v>>

\* the history after onStatus(id, msgType, value): a POSITION event for a
\* registered handle is a write
OnStatusWrites(ws, reg, id, msgType, value) ==
    IF Lookup(reg, id) # NoHandle /\ msgType = MEDIA_POSITION
    THEN Noted(ws, Lookup(reg, id), Write("POSITION", value, {}))
    ELSE ws

onStatus(id, msgType, value) ==
    /\ Tick
    /\ UNCHANGED <<platformId, gate>>
    /\ UNCHANGED <<mediaObjects, nextId, pending>>
    /\ execLog' = <<>>
    /\ raised' = "none"
    /\ console' = OnStatusConsole(mediaObjects, id, msgType)
    /\ calls' = OnStatusCalls(handles, mediaObjects, id, msgType, value)
    /\ handles' = OnStatusHandles(handles, mediaObjects, id, msgType, value)
    /\ writes' = OnStatusWrites(writes, mediaObjects, id, msgType, value)

(* ------------------------------------------------------------------ *)
(* onMessageFromNative                                                 *)
(* ------------------------------------------------------------------ *)
Message(action, id, msgType, value) ==
    [action |-> action, status |-> [id |-> id, msgType |-> msgType, value |-> value]]
\* the messages of the channel: every status message, and messages with
\* another action or none, whose status nobody reads
Messages ==
    UNION {{Message(Str("status"), id, msgType, value) : value \in StatusValues(msgType)} :
             id \in AllIds, msgType \in MsgTypes}
    \cup {Message(action, createUUID(1), MEDIA_POSITION, Str("2")) :
            action \in {Str("error"), Undef}}

\* a channel that takes every message for a status
IsStatus_Always(msg) == TRUE

\* msg.action == 'status'
IsStatus(msg) == LooseEq(msg.action, Str("status"))

onMessageFromNative(msg) ==
    /\ Tick
    /\ UNCHANGED <<platformId, gate>>
    /\ UNCHANGED <<mediaObjects, nextId, pending>>
    /\ execLog' = <<>>
    /\ IF IsStatus(msg)
       THEN /\ raised' = "none"
            /\ console' = OnStatusConsole(mediaObjects, msg.status.id, msg.status.msgType)
            /\ calls' = OnStatusCalls(handles, mediaObjects, msg.status.id,
                                      msg.status.msgType, msg.status.value)
            /\ handles' = OnStatusHandles(handles, mediaObjects, msg.status.id,
                                          msg.status.msgType, msg.status.value)
            /\ writes' = OnStatusWrites(writes, mediaObjects, msg.status.id,
                                        msg.status.msgType, msg.status.value)
       ELSE /\ raised' = "Error"
            /\ calls' = <<>>
            /\ console' = << >>
            /\ UNCHANGED <<handles, writes>>

(* ------------------------------------------------------------------ *)
(* The channel of the platforms that report through one                *)
(* ------------------------------------------------------------------ *)
\* a subscriber that completes the gate and opens no channel
OpenChannel_Skipped(q) == q

\* exec(onMessageFromNative, undefined, 'Media', 'messageChannel', [])
OpenChannel(q) ==
    Append(q, Cmd("messageChannel", NoHandle,
                  Cb("onMessageFromNative", NoHandle, Fn("onMessageFromNative")),
                  Cb("value", NoHandle, Undef)))

\* channel.initializationComplete('onMediaPluginReady')
initializationComplete(g) == IF g = "absent" THEN g ELSE "complete"

\* onCordovaReady fires, once, and runs the function the module subscribed
onCordovaReady ==
    /\ Tick
    /\ Subscribed(platformId)
    /\ gate = "waiting"
    /\ pending' = OpenChannel(pending)
    /\ execLog' = <<Exec("messageChannel", << >>)>>
    /\ gate' = initializationComplete(gate)
    /\ calls' = <<>>
    /\ raised' = "none"
    /\ console' = << >>
    /\ UNCHANGED <<mediaObjects, handles, nextId, platformId, writes>>

\* the native side sends msg through the channel: exec calls the success
\* callback of the channel's command with it
ChannelMessage(msg) ==
    /\ \E j \in 1..Len(pending) :
          /\ pending[j].method = "messageChannel"
          /\ pending[j].succ.kind = "onMessageFromNative"
    /\ onMessageFromNative(msg)

(* ------------------------------------------------------------------ *)
(* The specification                                                   *)
(* ------------------------------------------------------------------ *)
Created == DOMAIN handles

Next ==
    \/ \E srcArg \in Srcs, cbs \in CallbackArgs :
          Media(srcArg, cbs[1], cbs[2], cbs[3], cbs[4])
    \/ \E this \in Created : play(this)
    \/ \E this \in Created : stop(this)
    \/ \E this \in Created : seekTo(this)
    \/ \E this \in Created : pause(this)
    \/ \E this \in Created : getCurrentPosition(this)
    \/ \E this \in Created : startRecord(this)
    \/ \E this \in Created : stopRecord(this)
    \/ \E this \in Created : pauseRecord(this)
    \/ \E this \in Created : resumeRecord(this)
    \/ \E this \in Created : release(this)
    \/ \E this \in Created : setVolume(this)
    \/ \E this \in Created : setRate(this)
    \/ \E this \in Created : getCurrentAmplitude(this)
    \/ forceStop
    \/ \E i \in 1..Len(pending), value \in Values : DeliverSuccess(i, value)
    \/ \E i \in 1..Len(pending), value \in Values : DeliverError(i, value)
    \/ \E id \in AllIds, msgType \in MsgTypes :
          \E value \in StatusValues(msgType) : onStatus(id, msgType, value)
    \/ onCordovaReady
    \/ \E msg \in Messages : ChannelMessage(msg)

Spec == Init /\ [][Next]_vars

\* the state of a page that has constructed its first handle and whose
\* create command the bridge has answered with success (Spec reaches it in
\* two steps); steps counts from here
InitOneHandle ==
    /\ platformId \in Platforms
    /\ gate = GateAtLoad(platformId)
    /\ steps = 0
    /\ nextId = 2
    /\ pending = <<>>
    /\ execLog = <<>>
    /\ raised = "none"
    /\ console = << >>
    /\ \E srcArg \in Srcs, cbs \in CallbackArgs, value \in Values :
          LET this == NewMedia(createUUID(1), srcArg, cbs[1], cbs[2], cbs[3])
          IN /\ mediaObjects = Put(EmptyObject, this.id, this.id)
             /\ handles = Put([k \in {} |-> this], this.id, this)
             /\ writes = Put([k \in {} |-> << >>], this.id, << >>)
             /\ calls = InvokeCalls(Cb("value", this.id, cbs[4]), value)

\* the runs of a page from there on
SpecOneHandle == InitOneHandle /\ [][Next]_vars

\* the same program loaded on any of the platforms
InitPlatforms == Loaded(AllPlatforms)
SpecPlatforms == InitPlatforms /\ [][Next]_vars

(* ------------------------------------------------------------------ *)
(* Properties                                                          *)
(* ------------------------------------------------------------------ *)
\* indices of the commands at the bridge
Outstanding == 1..Len(pending)
\* the create commands at the bridge that carry id
CreatesFor(q, id) == {j \in 1..Len(q) : q[j].method = "create" /\ q[j].h = id}

\* C1: a constructor step registers the handle under an id no handle had
\* before, Media.get(id) returns it, its cached duration and position are
\* -1, and the step issues exactly one "create" command carrying [id, src].
C1_ConstructRegistersFresh ==
    [][\A srcArg \in Srcs, cbs \in CallbackArgs :
          Media(srcArg, cbs[1], cbs[2], cbs[3], cbs[4]) =>
            LET new == (DOMAIN handles') \ (DOMAIN handles)
            IN /\ Cardinality(new) = 1
               /\ \A id \in new :
                    /\ id \notin DOMAIN mediaObjects
                    /\ CreatesFor(pending, id) = {}
                    /\ Lookup(mediaObjects', id) = id
                    /\ handles'[id].id = id
                    /\ handles'[id]._duration = [k |-> "number", v |-> "-1"]
                    /\ handles'[id]._position = [k |-> "number", v |-> "-1"]
                    /\ execLog' = <<[method |-> "create",
                                     args |-> <<Str(id), Str(srcArg)>>]>>
                    /\ Cardinality(CreatesFor(pending', id)) = 1
               /\ \A old \in DOMAIN handles : handles'[old] = handles[old]
      ]_vars

\* C1 witness: a second handle has just been constructed after the first
\* one was released
C1_Witness ==
    /\ execLog = <<[method |-> "create", args |-> <<Str("uuid-2"), Str("a.mp3")>>]>>
    /\ "uuid-1" \in DOMAIN handles
    /\ "uuid-1" \notin DOMAIN mediaObjects
    /\ MediaGet("uuid-2") = "uuid-2"

\* C2: when release() returns the handle is out of the registry, and a
\* handle that is out of the registry is never in it again, whatever
\* method call, bridge callback or status event follows.
C2_ReleasedStaysUnregistered ==
    [][/\ \A h \in DOMAIN handles :
             release(h) => Lookup(mediaObjects', h) = NoHandle
       /\ \A h \in DOMAIN handles :
             Lookup(mediaObjects, h) = NoHandle => Lookup(mediaObjects', h) = NoHandle
      ]_vars

\* C2 witness: a handle was released, both of its commands have been
\* answered, the second with an error, and it is still unregistered
C2_Witness ==
    /\ steps = 4
    /\ pending = << >>
    /\ DOMAIN handles = {"uuid-1"}
    /\ MediaGet("uuid-1") = NoHandle
    /\ calls = <<[cb |-> "errorCallback", h |-> "uuid-1", arg |-> Num("4")]>>

\* C3: after forceStop() the registry is empty.
C3_ForceStopEmptiesRegistry ==
    [][forceStop =>
          /\ DOMAIN mediaObjects' = {}
          /\ \A id \in AllIds : Lookup(mediaObjects', id) = NoHandle
      ]_vars

\* C3 witness: forceStop has just stopped and released two registered
\* handles while a command of theirs was still unanswered
C3_Witness ==
    /\ DOMAIN mediaObjects = {}
    /\ Len(execLog) = 4
    /\ {execLog[j].method : j \in 1..Len(execLog)} = {"stopPlayingAudio", "release"}
    /\ Len(pending) > 4

\* C4: a STATE event with value STOPPED for a registered handle calls the
\* status callback with STOPPED once, then the success callback once, and
\* no other callback (a callback the handle does not have is not called).
C4_StoppedCallsStatusThenSuccess ==
    [][\A id \in DOMAIN mediaObjects :
          onStatus(id, MEDIA_STATE, MEDIA_STOPPED) =>
            LET media == handles[mediaObjects[id]]
            IN calls' =
                 (IF media.statusCallback.k = "function"
                  THEN <<[cb |-> "statusCallback", h |-> media.id, arg |-> Num("4")]>>
                  ELSE << >>)
                 \o
                 (IF media.successCallback.k = "function"
                  THEN <<[cb |-> "successCallback", h |-> media.id, arg |-> Undef]>>
                  ELSE << >>)
      ]_vars

\* C4 witness: the two callbacks of a handle have just been called in
\* that order
C4_Witness ==
    calls = <<[cb |-> "statusCallback", h |-> "uuid-1", arg |-> Num("4")],
              [cb |-> "successCallback", h |-> "uuid-1", arg |-> Undef]>>

\* C5: a status event of any message type for an id that is not in the
\* registry calls no callback, raises nothing and changes neither the
\* registry nor any handle.
C5_UnknownIdIsDropped ==
    [][\A id \in AllIds \ DOMAIN mediaObjects, msgType \in MsgTypes :
          \A value \in StatusValues(msgType) :
             onStatus(id, msgType, value) =>
                /\ calls' = << >>
                /\ raised' = "none"
                /\ mediaObjects' = mediaObjects
                /\ handles' = handles
      ]_vars

\* C5 witness: an event for a released handle, whose caches had been
\* written before, has just been dropped
C5_Witness ==
    \E id \in DOMAIN handles :
        /\ id \notin DOMAIN mediaObjects
        /\ handles[id]._duration # Num("-1")
        /\ console = <<"Received Media.onStatus callback for unknown media :: ", id>>

\* C6: for a registered handle a POSITION event sets the cached position
\* to the number the value reads as, a DURATION event sets the cached
\* duration to the value as sent; nothing else changes and no callback
\* is called.
C6_PositionAndDurationEvents ==
    [][\A id \in DOMAIN mediaObjects :
          /\ \A value \in StatusValues(MEDIA_POSITION) :
                onStatus(id, MEDIA_POSITION, value) =>
                   /\ handles' = [handles EXCEPT ![mediaObjects[id]]._position =
                                     [k |-> "number", v |-> value.v]]
                   /\ calls' = << >>
                   /\ mediaObjects' = mediaObjects
          /\ \A value \in StatusValues(MEDIA_DURATION) :
                onStatus(id, MEDIA_DURATION, value) =>
                   /\ handles' = [handles EXCEPT ![mediaObjects[id]]._duration = value]
                   /\ calls' = << >>
                   /\ mediaObjects' = mediaObjects
      ]_vars

\* C6 witness: a handle with a known duration holds the position 2 that
\* only a POSITION event carrying the text "2" can write, next to a
\* handle no event has touched
C6_Witness ==
    /\ DOMAIN mediaObjects = {"uuid-1", "uuid-2"}
    /\ handles["uuid-1"]._position = Num("2")
    /\ handles["uuid-1"]._duration = Num("4")
    /\ handles["uuid-2"]._position = Num("-1")

\* C7: calling seekTo changes no handle; the success callback of a
\* seekToAudio command sets the cached position of its handle to the
\* value delivered, changes nothing else of any handle, and calls the
\* caller's success callback with that value; the error callback of the
\* command changes no handle.
C7_SeekToWritesOnSuccessOnly ==
    [][/\ \A h \in DOMAIN handles : seekTo(h) => handles' = handles
       /\ \A i \in Outstanding, p \in Values :
             pending[i].method = "seekToAudio" =>
                /\ DeliverSuccess(i, p) =>
                      /\ handles' = [handles EXCEPT ![pending[i].h]._position = p]
                      /\ calls' = IF pending[i].succ.fn.k = "function"
                                  THEN <<[cb |-> "seekSuccess", h |-> pending[i].h,
                                          arg |-> p]>>
                                  ELSE << >>
                /\ DeliverError(i, p) => handles' = handles
      ]_vars

\* C7 witness: the success of a seekTo has just been delivered to a
\* handle whose duration was already known
C7_Witness ==
    \E h \in DOMAIN handles :
        /\ handles[h]._duration = Num("4")
        /\ handles[h]._position = Num("4")
        /\ calls = <<[cb |-> "seekSuccess", h |-> h, arg |-> Num("4")]>>

\* methods whose error adapter is the handle's own error callback
OwnErrorMethods ==
    {"create", "stopPlayingAudio", "pausePlayingAudio", "startRecordingAudio",
     "stopRecordingAudio", "pauseRecordingAudio", "resumeRecordingAudio", "release"}
\* methods whose error adapter is a callback the caller passes
CallerErrorMethods ==
    {"seekToAudio", "getCurrentPositionAudio", "getCurrentAmplitudeAudio"}
\* methods built without an error adapter
NoErrorMethods == {"startPlayingAudio", "setVolume", "setRate"}

\* C8 as stated: an error the bridge reports for any command of a handle
\* that has an error callback calls that callback with the error value.
C8_EveryErrorReachesHandle ==
    [][\A i \in Outstanding, e \in Values :
          (DeliverError(i, e) /\ handles[pending[i].h].errorCallback.k = "function") =>
             calls' = <<[cb |-> "errorCallback", h |-> pending[i].h, arg |-> e]>>
      ]_vars

\* C8 amended: an error the bridge reports calls, with the error value,
\* the handle's own error callback for the construction, stop, pause,
\* the four record methods and release; the failure callback passed to
\* the call for seekTo, getCurrentPosition and getCurrentAmplitude; and
\* no callback at all for play, setVolume and setRate.
C8_ErrorReachesDesignatedCallback ==
    [][\A i \in Outstanding, e \in Values :
          DeliverError(i, e) =>
             LET c == pending[i]
                 own == handles[c.h].errorCallback
             IN /\ c.method \in OwnErrorMethods \cup CallerErrorMethods \cup NoErrorMethods
                /\ c.method \in OwnErrorMethods =>
                      calls' = IF own.k = "function"
                               THEN <<[cb |-> "errorCallback", h |-> c.h, arg |-> e]>>
                               ELSE << >>
                /\ c.method \in CallerErrorMethods =>
                      /\ c.err.fn \in {Fn("seekFail"), Fn("positionFail"),
                                       Fn("amplitudeFail"), Undef}
                      /\ calls' = IF c.err.fn.k = "function"
                                  THEN <<[cb |-> c.err.fn.v, h |-> c.h, arg |-> e]>>
                                  ELSE << >>
                /\ c.method \in NoErrorMethods => calls' = << >>
      ]_vars

\* C8 witness: the error of a command has just reached the handle's own
\* error callback
C8_Witness ==
    /\ calls = <<[cb |-> "errorCallback", h |-> "uuid-1", arg |-> Num("4")]>>
    /\ MediaGet("uuid-1") = "uuid-1"

\* C9: a channel message whose action is "status" does what
\* onStatus(status.id, status.msgType, status.value) does; a message with
\* another action raises an error, calls no callback and changes neither
\* the registry nor any handle.
C9_ChannelDispatch ==
    [][\A msg \in Messages :
          ChannelMessage(msg) =>
                IF msg.action = [k |-> "string", v |-> "status"]
                THEN /\ raised' = "none"
                     /\ handles' = OnStatusHandles(handles, mediaObjects, msg.status.id,
                                                   msg.status.msgType, msg.status.value)
                     /\ calls' = OnStatusCalls(handles, mediaObjects, msg.status.id,
                                               msg.status.msgType, msg.status.value)
                     /\ console' = OnStatusConsole(mediaObjects, msg.status.id,
                                                   msg.status.msgType)
                     /\ mediaObjects' = mediaObjects
                ELSE /\ raised' = "Error"
                     /\ calls' = << >>
                     /\ mediaObjects' = mediaObjects
                     /\ handles' = handles
      ]_vars

\* C9 witness: a message with an unknown action has just been refused
\* while a handle was registered
C9_Witness ==
    /\ raised = "Error"
    /\ DOMAIN mediaObjects # {}

\* C10 as stated: a registered handle is still registered when release()
\* returns, and leaves the registry when the success callback of its
\* release command is delivered.
C10_RemovedOnReleaseSuccess ==
    [][/\ \A h \in DOMAIN mediaObjects : release(h) => h \in DOMAIN mediaObjects'
       /\ \A i \in Outstanding, r \in Values :
             (pending[i].method = "release" /\ DeliverSuccess(i, r)) =>
                pending[i].h \notin DOMAIN mediaObjects'
      ]_vars

\* C10 amended: release() removes the handle from the registry during the
\* call, before the bridge has answered: the handle is unregistered when
\* release() returns, the success callback handed to exec is undefined,
\* and neither answer to the release command changes the registry.
C10_RemovedDuringReleaseCall ==
    [][/\ \A h \in DOMAIN handles :
             release(h) =>
                /\ mediaObjects' = [k \in (DOMAIN mediaObjects) \ {h} |-> mediaObjects[k]]
                /\ pending'[Len(pending')].method = "release"
                /\ pending'[Len(pending')].succ.fn = Undef
       /\ \A i \in Outstanding, r \in Values :
             (pending[i].method = "release" /\ (DeliverSuccess(i, r) \/ DeliverError(i, r))) =>
                mediaObjects' = mediaObjects
      ]_vars

\* C10 witness: release() has just returned, its command is unanswered
\* and the handle is already out of the registry
C10_Witness ==
    /\ Len(execLog) = 1
    /\ execLog[1] = [method |-> "release", args |-> <<Str("uuid-1")>>]
    /\ pending[Len(pending)].method = "release"
    /\ MediaGet("uuid-1") = NoHandle

\* C11 as stated: when stop() returns, the cached position of the handle
\* is 0, whether or not the bridge has answered.
C11_StopResetsAtCall ==
    [][\A h \in DOMAIN handles :
          stop(h) => handles'[h]._position = [k |-> "number", v |-> "0"]
      ]_vars

\* C11 amended: stop() leaves the cached position as it was; the position
\* becomes 0 in the step that delivers the success callback of the
\* stopPlayingAudio command, and that step calls no user callback.
C11_StopResetsOnSuccess ==
    [][/\ \A h \in DOMAIN handles :
             stop(h) =>
                /\ handles' = handles
                /\ pending'[Len(pending')].method = "stopPlayingAudio"
                /\ pending'[Len(pending')].h = h
       /\ \A i \in Outstanding, r \in Values :
             (pending[i].method = "stopPlayingAudio" /\ DeliverSuccess(i, r)) =>
                /\ handles' = [handles EXCEPT ![pending[i].h]._position =
                                  [k |-> "number", v |-> "0"]]
                /\ calls' = << >>
      ]_vars

\* C11 witness: stop() has just returned on a handle whose position a
\* POSITION event had set to 2; the command is unanswered and the
\* position is still 2
C11_Witness ==
    /\ execLog = <<[method |-> "stopPlayingAudio", args |-> <<Str("uuid-1")>>]>>
    /\ pending[Len(pending)].method = "stopPlayingAudio"
    /\ handles["uuid-1"]._position = Num("2")

\* the method calls of the public interface on handle h
MethodCall(h) ==
    \/ play(h) \/ stop(h) \/ seekTo(h) \/ pause(h) \/ getCurrentPosition(h)
    \/ startRecord(h) \/ stopRecord(h) \/ pauseRecord(h) \/ resumeRecord(h)
    \/ setVolume(h) \/ setRate(h) \/ getCurrentAmplitude(h) \/ release(h)

\* C12: a call of play, stop, seekTo, pause, getCurrentPosition, a record
\* method, setVolume, setRate, getCurrentAmplitude or release changes the
\* cached duration and the cached position of no handle: each keeps the
\* value it had, -1 on a handle nothing was delivered for.
C12_MethodCallsKeepCaches ==
    [][\A h \in DOMAIN handles :
          MethodCall(h) =>
             /\ DOMAIN handles' = DOMAIN handles
             /\ \A k \in DOMAIN handles :
                   /\ handles'[k]._duration = handles[k]._duration
                   /\ handles'[k]._position = handles[k]._position
      ]_vars

\* C12 witness: nothing has been delivered since the page loaded (each
\* of the two steps handed one command to exec and both are unanswered),
\* the last step was a seekTo, and both caches of the handle are still -1
C12_Witness ==
    /\ steps = 2
    /\ Len(pending) = 2
    /\ execLog # << >>
    /\ execLog[1].method = "seekToAudio"
    /\ \A k \in DOMAIN handles :
          handles[k]._duration = Num("-1") /\ handles[k]._position = Num("-1")

\* C13: a step that changes the registry is a construction, a release()
\* call or a forceStop() call; it is never the delivery of a success or
\* error callback of the bridge, a status event or a channel message.
C13_RegistryChangesOnlyInCalls ==
    [][mediaObjects' # mediaObjects =>
          /\ \/ \E srcArg \in Srcs, cbs \in CallbackArgs :
                   Media(srcArg, cbs[1], cbs[2], cbs[3], cbs[4])
             \/ \E h \in DOMAIN handles : release(h)
             \/ forceStop
          /\ \A i \in Outstanding, r \in Values :
                ~DeliverSuccess(i, r) /\ ~DeliverError(i, r)
          /\ \A id \in AllIds, msgType \in MsgTypes :
                \A value \in StatusValues(msgType) : ~onStatus(id, msgType, value)
          /\ \A msg \in Messages : ~onMessageFromNative(msg)
      ]_vars

\* C13 witness: with two handles registered the bridge has just answered
\* the create command of the first, and both are still registered
C13_Witness ==
    /\ calls = <<[cb |-> "createdCallback", h |-> "uuid-1", arg |-> Num("4")]>>
    /\ DOMAIN mediaObjects = {"uuid-1", "uuid-2"}
    /\ Len(pending) = 1

\* the values of a STATE event that are not STOPPED
NotStopped == {[k |-> "number", v |-> n] : n \in {"0", "1", "2", "3"}}

\* C14: a STATE event with value NONE, STARTING, RUNNING or PAUSED for a
\* registered handle calls the status callback once with that value and
\* no other callback; an event calls a success callback only if it is a
\* STATE event whose value equals STOPPED (the number 4, or under == its
\* text); and no STATE event changes a handle or the registry.
C14_SuccessOnlyWhenStopped ==
    [][\A id \in DOMAIN mediaObjects :
          /\ \A value \in NotStopped :
                onStatus(id, MEDIA_STATE, value) =>
                   calls' = IF handles[mediaObjects[id]].statusCallback.k = "function"
                            THEN <<[cb |-> "statusCallback", h |-> mediaObjects[id],
                                    arg |-> value]>>
                            ELSE << >>
          /\ \A msgType \in MsgTypes :
                \A value \in StatusValues(msgType) :
                   onStatus(id, msgType, value) =>
                      /\ (\E j \in 1..Len(calls') : calls'[j].cb = "successCallback") =>
                            /\ msgType = [k |-> "number", v |-> "1"]
                            /\ value.v = "4"
                      /\ msgType = [k |-> "number", v |-> "1"] =>
                            /\ handles' = handles
                            /\ mediaObjects' = mediaObjects
      ]_vars

\* C14 witness: a handle that has a success callback has just been told
\* PAUSED, and only its status callback was called
C14_Witness ==
    /\ calls = <<[cb |-> "statusCallback", h |-> "uuid-1", arg |-> MEDIA_PAUSED]>>
    /\ MediaGet("uuid-1") = "uuid-1"
    /\ handles["uuid-1"].successCallback = Fn("successCallback")

\* C15: an ERROR event for a registered handle calls the error callback
\* of that handle once with the value of the event (none if the handle
\* has no error callback), calls no other callback, and changes neither
\* a handle nor the registry.
C15_ErrorEventCallsErrorCallback ==
    [][\A id \in DOMAIN mediaObjects :
          \A value \in StatusValues(MEDIA_ERROR) :
             onStatus(id, MEDIA_ERROR, value) =>
                /\ calls' = IF handles[mediaObjects[id]].errorCallback.k = "function"
                            THEN <<[cb |-> "errorCallback", h |-> mediaObjects[id],
                                    arg |-> value]>>
                            ELSE << >>
                /\ handles' = handles
                /\ mediaObjects' = mediaObjects
                /\ id \in DOMAIN mediaObjects'
      ]_vars

\* C15 witness: a registered handle whose duration is known has just
\* received an ERROR event with code 2
C15_Witness ==
    /\ calls = <<[cb |-> "errorCallback", h |-> "uuid-1", arg |-> Num("2")]>>
    /\ MediaGet("uuid-1") = "uuid-1"
    /\ handles["uuid-1"]._duration = Num("4")
    /\ handles["uuid-1"]._position = Num("-1")

\* the places of the exec calls of log that carry id as their first argument
CallsFor(log, id) == {j \in 1..Len(log) : log[j].args[1] = Str(id)}

\* C16: forceStop() hands to exec, for every id registered when it is
\* called, one stopPlayingAudio and right after it one release with that
\* id, nothing else, and nothing for an id that was not registered; the
\* commands reach the bridge in that order.
C16_ForceStopIssuesStopThenRelease ==
    [][forceStop =>
          /\ Len(execLog') = 2 * Cardinality(DOMAIN mediaObjects)
          /\ \A id \in DOMAIN mediaObjects :
                \E j \in 1..(Len(execLog') - 1) :
                   /\ CallsFor(execLog', id) = {j, j + 1}
                   /\ execLog'[j] = [method |-> "stopPlayingAudio", args |-> <<Str(id)>>]
                   /\ execLog'[j + 1] = [method |-> "release", args |-> <<Str(id)>>]
          /\ \A id \in AllIds \ DOMAIN mediaObjects : CallsFor(execLog', id) = {}
          /\ Len(pending') = Len(pending) + Len(execLog')
          /\ \A j \in 1..Len(pending) : pending'[j] = pending[j]
          /\ \A j \in 1..Len(execLog') :
                /\ pending'[Len(pending) + j].method = execLog'[j].method
                /\ Str(pending'[Len(pending) + j].h) = execLog'[j].args[1]
      ]_vars

\* C16 witness: forceStop has just run with the second handle registered
\* and the first already released: the only commands are for the second
C16_Witness ==
    /\ execLog = <<[method |-> "stopPlayingAudio", args |-> <<Str("uuid-2")>>],
                    [method |-> "release", args |-> <<Str("uuid-2")>>]>>
    /\ "uuid-1" \in DOMAIN handles
    /\ DOMAIN mediaObjects = {}

\* the platforms the claim names
ChannelPlatforms == {"android", "amazon-fireos", "windowsphone"}
\* the places of the messageChannel command at the bridge
ChannelCommands == {j \in 1..Len(pending) : pending[j].method = "messageChannel"}

\* C17: on android, amazon-fireos and windowsphone the gate
\* onMediaPluginReady is registered, and it is complete only when the
\* messageChannel command has been handed to exec; the success callback
\* of that command is onMessageFromNative, which sends every message to
\* the status demultiplexer (C9), and it has no error callback.  On any
\* other platform there is no gate and no messageChannel command.
C17_GateCompleteOnlyWithChannel ==
    /\ platformId \in ChannelPlatforms =>
          /\ gate \in {"waiting", "complete"}
          /\ gate = "complete" <=> ChannelCommands # {}
          /\ Cardinality(ChannelCommands) <= 1
          /\ \A j \in ChannelCommands :
                /\ pending[j].succ.fn = [k |-> "function", v |-> "onMessageFromNative"]
                /\ pending[j].succ.kind = "onMessageFromNative"
                /\ pending[j].err.fn = Undef
    /\ platformId \notin ChannelPlatforms =>
          /\ gate = "absent"
          /\ ChannelCommands = {}
          /\ \A j \in 1..Len(execLog) : execLog[j].method # "messageChannel"
          /\ raised # "Error"

\* C17 witness: on windowsphone the gate is complete, the channel's
\* command is at the bridge, and a STATE message that came through the
\* channel has just reached the status callback of a handle
C17_Witness ==
    /\ platformId = "windowsphone"
    /\ gate = "complete"
    /\ ChannelCommands # {}
    /\ calls = <<[cb |-> "statusCallback", h |-> "uuid-1", arg |-> MEDIA_RUNNING]>>

\* C18: every key k of the registry holds a handle whose id is k; every
\* handle ever constructed has an id of its own, a construction adding
\* one that no handle had; and an id that has left the registry is in no
\* later state a key of it, whatever step is taken.
C18_KeysAreIdsNeverReused ==
    /\ [](/\ \A k \in DOMAIN mediaObjects :
                /\ mediaObjects[k] \in DOMAIN handles
                /\ handles[mediaObjects[k]].id = k
          /\ \A a \in DOMAIN handles : handles[a].id = a
          /\ Cardinality(DOMAIN handles) = nextId - 1)
    /\ [][/\ \A id \in (DOMAIN handles) \ (DOMAIN mediaObjects) :
                id \notin DOMAIN mediaObjects'
          /\ \A id \in (DOMAIN mediaObjects') \ (DOMAIN mediaObjects) :
                id \notin DOMAIN handles
          /\ DOMAIN handles \subseteq DOMAIN handles'
         ]_vars

\* C18 witness: the first handle was removed by forceStop, a second was
\* constructed, and an event naming the first has just been dropped: the
\* registry holds the second under its own id and not the first
C18_Witness ==
    /\ DOMAIN mediaObjects = {"uuid-2"}
    /\ handles[mediaObjects["uuid-2"]].id = "uuid-2"
    /\ "uuid-1" \in DOMAIN handles
    /\ {pending[j].method : j \in 1..Len(pending)} =
          {"create", "stopPlayingAudio", "release"}
    /\ console = <<"Received Media.onStatus callback for unknown media :: ", "uuid-1">>

\* the position a delivered write leaves: 0 for the success of stop, the
\* value delivered for the success of seekTo and of getCurrentPosition,
\* the number a POSITION event's value reads as
Written(w) ==
    CASE w.by = "stopPlayingAudio" -> [k |-> "number", v |-> "0"]
      [] w.by = "POSITION"         -> [k |-> "number", v |-> w.sent.v]
      [] OTHER                     -> w.sent

\* C19: the cached position of every handle is what the write delivered
\* last for it left, and -1 if none was delivered, in whatever order the
\* commands had been issued.
C19_PositionIsLastDeliveredWrite ==
    \A id \in DOMAIN handles :
       /\ id \in DOMAIN writes
       /\ handles[id]._position =
             IF writes[id] = << >> THEN [k |-> "number", v |-> "-1"]
             ELSE Written(writes[id][Len(writes[id])])

\* C19 witness: stop() was called before seekTo(), the success of the
\* seekTo was delivered first and the success of the stop after it: the
\* position is 0
C19_Witness ==
    \E id \in DOMAIN handles :
       /\ writes[id] = <<[by |-> "seekToAudio", sent |-> Num("4"),
                           overtook |-> {"stopPlayingAudio"}],
                          [by |-> "stopPlayingAudio", sent |-> Num("4"), overtook |-> {}]>>
       /\ handles[id]._position = Num("0")

\* C20: the delivery of an error callback of any command changes neither
\* the registry nor the cached duration or position of any handle.
C20_ErrorDeliveryKeepsState ==
    [][\A i \in Outstanding, e \in Values :
          DeliverError(i, e) =>
             /\ mediaObjects' = mediaObjects
             /\ DOMAIN handles' = DOMAIN handles
             /\ \A k \in DOMAIN handles :
                   /\ handles'[k]._duration = handles[k]._duration
                   /\ handles'[k]._position = handles[k]._position
      ]_vars

\* C20 witness: the error of a seekTo has just reached the caller's
\* failure callback; the position is still the 2 a POSITION event wrote
\* and the handle is registered
C20_Witness ==
    /\ calls = <<[cb |-> "seekFail", h |-> "uuid-1", arg |-> Num("4")]>>
    /\ handles["uuid-1"]._position = Num("2")
    /\ handles["uuid-1"]._duration = Num("-1")
    /\ MediaGet("uuid-1") = "uuid-1"

====
